---------------------------- MODULE Spec2Model ----------------------------
(***************************************************************************)
(* Lab equipment booking (src/app.py): the reservation engine.             *)
(*                                                                         *)
(* The store is a set of named tables that are read whole (load_sheet) and *)
(* overwritten whole (save_sheet).  A string is a sequence of one-character*)
(* strings, so that len(), isdigit(), slicing and Python's lexicographic   *)
(* comparison are computed as the code computes them.  A calendar date is  *)
(* its day number (str(date) is injective, date + timedelta(days=1) is +1);*)
(* the clock is the second that strftime('%Y%m%d%H%M%S') prints.           *)
(***************************************************************************)
EXTENDS Integers, Sequences, FiniteSets, TLC

VARIABLES
    bookings,   \* the Reservations table of the store, in row order
    logs,       \* the AuditLog table of the store, in row order
    now,        \* the wall clock, in seconds
    faults,     \* how many store calls have failed so far
    pc,         \* per session: where a handler split at its store round trips is
    loc,        \* per session: the handler's local variables while it is split
    call,       \* the last direct call of a pure function and its arguments
    ret,        \* what that call returned
    sheet_labs,       \* the 'labs' table of the store: the lab registry
    sheet_equipment,  \* the 'equipment' table of the store: the equipment registry
    sheet_water       \* the 'water' table of the store: the water-usage ledger

vars == <<bookings, logs, now, faults, pc, loc, call, ret,
          sheet_labs, sheet_equipment, sheet_water>>

\* the tables that the booking form and its list leave alone
sheets == <<sheet_labs, sheet_equipment, sheet_water>>

----------------------------------------------------------------------------
(* Bounds of the model *)

MaxRows  == 3      \* rows of the Reservations table
MaxLogs  == 2      \* entries of the AuditLog
MaxFaults == 1     \* store calls that fail in one run of the system
MaxClock == 2      \* the clock takes the seconds 1..MaxClock
MaxTable == 2      \* rows of a table handed to a direct call of check_overlap

----------------------------------------------------------------------------
(* Strings *)

Min(a, b) == IF a < b THEN a ELSE b

\* ord() of the characters that occur; "sup2" stands for the one character
\* U+00B2 (superscript two) and "ar3" for U+0663 (Arabic-Indic digit three)
CharOrd == [c \in {"0","1","2","3","4","5","6","7","8","9",":","a","sup2","ar3"} |->
    CASE c = "0" -> 48 [] c = "1" -> 49 [] c = "2" -> 50 [] c = "3" -> 51
      [] c = "4" -> 52 [] c = "5" -> 53 [] c = "6" -> 54 [] c = "7" -> 55
      [] c = "8" -> 56 [] c = "9" -> 57 [] c = ":" -> 58 [] c = "a" -> 97
      [] c = "sup2" -> 178 [] c = "ar3" -> 1635]

DigitChar == <<"0","1","2","3","4","5","6","7","8","9">>

\* the characters int() reads as a decimal digit (Unicode category Nd)
IsDecimalChar(c) == CharOrd[c] \in 48..57 \/ c = "ar3"

\* the characters str.isdigit() accepts: the decimal digits and the other
\* characters of numeric type Digit, such as the superscripts
IsDigitChar(c) == IsDecimalChar(c) \/ c = "sup2"

\* int() of one decimal digit character
DigitVal(c) == IF c = "ar3" THEN 3 ELSE CharOrd[c] - CharOrd["0"]

\* str.isdigit(): non-empty and every character a digit
isdigit(s) == Len(s) > 0 /\ \A i \in 1..Len(s) : IsDigitChar(s[i])

\* variant: a <= b, equal strings compare as less
StrLe(a, b) ==
    LET n == Min(Len(a), Len(b)) IN
    \E i \in 1..(n + 1) :
        /\ \A j \in 1..(i - 1) : a[j] = b[j]
        /\ IF i <= n THEN CharOrd[a[i]] < CharOrd[b[i]] ELSE Len(a) <= Len(b)

\* Python's a < b on strings: lexicographic by code point, a proper prefix is less
StrLt(a, b) ==
    LET n == Min(Len(a), Len(b)) IN
    \E i \in 1..(n + 1) :
        /\ \A j \in 1..(i - 1) : a[j] = b[j]
        /\ IF i <= n THEN CharOrd[a[i]] < CharOrd[b[i]] ELSE Len(a) < Len(b)

\* s[:5]
Take5(s) == SubSeq(s, 1, Min(5, Len(s)))

\* f"{n:02d}" for 0 <= n <= 99
Fmt02(n) == <<DigitChar[(n \div 10) + 1], DigitChar[(n % 10) + 1]>>

\* Python's None; parse_time never returns the empty string, and the handler
\* tests its result only with "not fs", which None and "" both satisfy
None == << >>

\* a ValueError that int() raises and nothing catches
ValueError == <<"ValueError">>

T2400 == <<"2","4",":","0","0">>
T0000 == <<"0","0",":","0","0">>

----------------------------------------------------------------------------
(* parse_time, check_overlap *)

parse_time(time_str) ==
    IF Len(time_str) = 0 \/ Len(time_str) # 4 \/ ~isdigit(time_str)
    THEN None
    ELSE IF \E i \in 1..4 : ~IsDecimalChar(time_str[i])
    THEN ValueError
    ELSE LET h == 10 * DigitVal(time_str[1]) + DigitVal(time_str[2])
             m == 10 * DigitVal(time_str[3]) + DigitVal(time_str[4])
         IN IF ~(0 <= h /\ h <= 23 /\ 0 <= m /\ m <= 59)
            THEN None
            ELSE Fmt02(h) \o <<":">> \o Fmt02(m)

\* variant with closed intervals: a row that only touches the candidate counts
RowOverlapsTouching(row, start_time, end_time) ==
    /\ ~StrLt(end_time, Take5(row.start_time))
    /\ ~StrLt(Take5(row.end_time), start_time)

\* the test of one row of the filtered frame against the candidate interval
RowOverlaps(row, start_time, end_time) ==
    /\ StrLt(Take5(row.start_time), end_time)
    /\ StrLt(start_time, Take5(row.end_time))

\* rows of the same date and the same equipment, in table order
SameDayRows(df, date_str, eq_name) ==
    SelectSeq(df, LAMBDA r : r.date = date_str /\ r.equipment = eq_name)

\* variant that goes through the filtered rows from the last to the first
check_overlap_last(df, date_str, eq_name, start_time, end_time) ==
    IF Len(df) = 0 THEN <<FALSE, "">>
    ELSE LET same == SameDayRows(df, date_str, eq_name)
             hits == {i \in 1..Len(same) : RowOverlaps(same[i], start_time, end_time)}
         IN IF Len(same) = 0 \/ hits = {} THEN <<FALSE, "">>
            ELSE LET last == CHOOSE i \in hits : \A j \in hits : i >= j
                 IN <<TRUE, same[last].user_name>>

\* returns <<overlap, user_name of the first overlapping row>>
check_overlap(df, date_str, eq_name, start_time, end_time) ==
    IF Len(df) = 0 THEN <<FALSE, "">>
    ELSE LET same == SameDayRows(df, date_str, eq_name)
             hits == {i \in 1..Len(same) : RowOverlaps(same[i], start_time, end_time)}
         IN IF Len(same) = 0 \/ hits = {} THEN <<FALSE, "">>
            ELSE LET first == CHOOSE i \in hits : \A j \in hits : i <= j
                 IN <<TRUE, same[first].user_name>>

----------------------------------------------------------------------------
(* calculate_hours *)

\* s.split(':')
RECURSIVE split(_)
split(s) ==
    IF \A i \in 1..Len(s) : s[i] # ":"
    THEN <<s>>
    ELSE LET i == CHOOSE k \in 1..Len(s) :
                      s[k] = ":" /\ \A j \in 1..(k - 1) : s[j] # ":"
         IN <<SubSeq(s, 1, i - 1)>> \o split(SubSeq(s, i + 1, Len(s)))

\* int(s) returns for s over the characters of CharOrd: s is not empty and
\* every character is a decimal digit
IntReads(s) == Len(s) > 0 /\ \A i \in 1..Len(s) : IsDecimalChar(s[i])

\* int(s) of a string of decimal digits
RECURSIVE int(_)
int(s) ==
    IF Len(s) = 0 THEN 0
    ELSE 10 * int(SubSeq(s, 1, Len(s) - 1)) + DigitVal(s[Len(s)])

\* h, m = map(int, s.split(':')) returns: two parts, each read by int()
Unpacks(s) ==
    LET parts == split(s) IN
    Len(parts) = 2 /\ IntReads(parts[1]) /\ IntReads(parts[2])

\* h * 60 + m after h, m = map(int, s.split(':'))
HourMin(s) == LET parts == split(s) IN int(parts[1]) * 60 + int(parts[2])

\* a float as the quotient num / den
Float(num, den) == [num |-> num, den |-> den]

\* returns the hours as a quotient: (end_min - start_min) / 60.0, or 0.0
\* from the except branch
calculate_hours(start_str, end_str) ==
    IF end_str # T2400 /\ ~Unpacks(end_str) THEN Float(0, 1)
    ELSE IF ~Unpacks(start_str) THEN Float(0, 1)
    ELSE LET end_min == IF end_str = T2400 THEN 24 * 60 ELSE HourMin(end_str)
             start_min == HourMin(start_str)
         IN Float(end_min - start_min, 60)


----------------------------------------------------------------------------
(* The store: load_sheet, save_sheet, add_log *)

\* get_empty_structure: a frame with the columns and no rows
get_empty_structure == << >>

\* what conn.read gives back is the table (ok) or an exception (~ok); an
\* exception and an empty table both come out as the empty structure
load_sheet(table, ok) ==
    IF ~ok THEN get_empty_structure
    ELSE IF Len(table) = 0 THEN get_empty_structure
    ELSE table

\* variant of a store that merges: the rows stored stay, new rows are added
save_sheet_merging(table, df, ok) ==
    IF ok THEN <<TRUE, table \o SelectSeq(df, LAMBDA r : \A i \in 1..Len(table) : table[i] # r)>>
    ELSE <<FALSE, table>>

\* conn.update overwrites the whole table (ok) or raises and changes nothing
\* (~ok); returns <<the function's result, the table afterwards>>
save_sheet(table, df, ok) == IF ok THEN <<TRUE, df>> ELSE <<FALSE, table>>

\* the AuditLog after add_log; a failed read or write is swallowed
add_log(log_table, clock, action, user, details, rd_ok, wr_ok) ==
    LET df_log  == load_sheet(log_table, rd_ok)
        new_log == [timestamp |-> clock, action |-> action,
                    user |-> user, details |-> details]
    IN save_sheet(log_table, Append(df_log, new_log), wr_ok)[2]

\* the st.error lines that load_sheet and save_sheet themselves print
StoreErrors(rd_ok, wr_ok, lrd_ok, lwr_ok) ==
    (IF rd_ok THEN {} ELSE {"load bookings"})
    \cup (IF wr_ok THEN {} ELSE {"save bookings"})
    \cup (IF lrd_ok THEN {} ELSE {"load logs"})
    \cup (IF lwr_ok THEN {} ELSE {"save logs"})

----------------------------------------------------------------------------
(* Inputs of the booking form *)

\* df['name'].tolist()
NamesOf(df) == {df[i].name : i \in 1..Len(df)}

\* the registries as the script reads them when it starts; a failed read
\* gives the empty list and the form is not shown
LABS      == NamesOf(load_sheet(sheet_labs, TRUE))
EQUIPMENT == NamesOf(load_sheet(sheet_equipment, TRUE))
Dates     == {1, 2}

P1234 == <<"1","2","3","4">>
P0000 == <<"0","0","0","0">>

R0000 == <<"0","0","0","0">>
R0900 == <<"0","9","0","0">>
R2300 == <<"2","3","0","0">>
RawTimes == {R0000, R0900, R2300}

\* requests that pass the shape checks of the form, or only fail on the times:
\* every pair of times on either date for one user and one equipment, and a
\* few of another user (another password) and of another equipment
GoodRequests ==
    [user_name : {"kim"}, user_lab : LABS, eq_name : {"E1"}, date : Dates,
     start_str : RawTimes, end_str : RawTimes, password : {P1234}]
    \cup [user_name : {"lee"}, user_lab : LABS, eq_name : {"E1"}, date : {1},
          start_str : {R0900}, end_str : {R2300}, password : {P0000}]
    \cup [user_name : {"lee"}, user_lab : LABS, eq_name : {"E2"}, date : {1},
          start_str : {R0900, R2300}, end_str : {R0900, R2300}, password : {P0000}]

BaseRequest ==
    [user_name |-> "kim", user_lab |-> "Lab1", eq_name |-> "E1", date |-> 1,
     start_str |-> R0900, end_str |-> R2300, password |-> P1234]

\* requests that break one rule of the form each, and one whose end time
\* makes parse_time raise
BadRequests ==
    { [BaseRequest EXCEPT !.user_name = ""],
      [BaseRequest EXCEPT !.password = <<"1","2","3">>],
      [BaseRequest EXCEPT !.password = <<"1","2","a","4">>],
      [BaseRequest EXCEPT !.password = << >>],
      [BaseRequest EXCEPT !.start_str = <<"2","4","0","0">>],
      [BaseRequest EXCEPT !.end_str = <<"0","9","6","0">>],
      [BaseRequest EXCEPT !.start_str = <<"9","0","0">>],
      [BaseRequest EXCEPT !.end_str = <<"0","9","a","0">>],
      [BaseRequest EXCEPT !.end_str = << >>],
      [BaseRequest EXCEPT !.end_str = <<"0","9","sup2","0">>] }

Requests == GoodRequests \cup BadRequests

NoRequest == [BaseRequest EXCEPT !.user_name = "", !.password = << >>,
                                 !.start_str = << >>, !.end_str = << >>]

----------------------------------------------------------------------------
(* The booking form's handler: validation, conflict check, rows, write *)

Row(id, user_name, lab, equipment, date, start_time, end_time, password) ==
    [id |-> id, user_name |-> user_name, lab |-> lab, equipment |-> equipment,
     date |-> date, start_time |-> start_time, end_time |-> end_time,
     password |-> password]

NoRow == Row(<<0, "">>, "", "", "", 0, None, None, << >>)

\* datetime.now().strftime('%Y%m%d%H%M%S') followed by the suffix: the id
\* string is the clock's second and "", "_1" or "_2"
MakeId(clock, suffix) == <<clock, suffix>>

\* variant without the test for equal times
ValidateSameTimeAllowed(req) ==
    IF req.user_name = "" THEN "name_required"
    ELSE IF Len(req.password) # 4 \/ ~isdigit(req.password) THEN "bad_password"
    ELSE IF ValueError \in {parse_time(req.start_str), parse_time(req.end_str)}
         THEN "exception"
    ELSE IF parse_time(req.start_str) = None \/ parse_time(req.end_str) = None
         THEN "bad_time"
         ELSE "ok"

\* the elif chain in front of the store read; "ok" when every check passes
Validate(req) ==
    IF req.user_name = "" THEN "name_required"
    ELSE IF Len(req.password) # 4 \/ ~isdigit(req.password) THEN "bad_password"
    ELSE LET fs == parse_time(req.start_str)
             fe == parse_time(req.end_str)
         IN IF fs = ValueError \/ fe = ValueError THEN "exception"
            ELSE IF fs = None \/ fe = None THEN "bad_time"
            ELSE IF fs = fe THEN "same_time"
            ELSE "ok"

\* fe < fs
IsOvernight(req) == StrLt(parse_time(req.end_str), parse_time(req.start_str))

\* variant that checks the first date only
ConflictTonightOnly(df_bookings, req) ==
    check_overlap(df_bookings, req.date, req.eq_name, parse_time(req.start_str),
                  IF IsOvernight(req) THEN T2400 ELSE parse_time(req.end_str))

\* the conflict check(s) of a validated request: <<conflict, blocking user>>
Conflict(df_bookings, req) ==
    LET fs == parse_time(req.start_str)
        fe == parse_time(req.end_str)
    IN IF IsOvernight(req)
       THEN LET c1 == check_overlap(df_bookings, req.date, req.eq_name, fs, T2400)
                c2 == check_overlap(df_bookings, req.date + 1, req.eq_name, T0000, fe)
            IN <<c1[1] \/ c2[1], IF c1[1] THEN c1[2] ELSE c2[2]>>
       ELSE check_overlap(df_bookings, req.date, req.eq_name, fs, fe)

\* variant that puts both halves on the first date
NewRowsSameDay(clock, req) ==
    LET fs == parse_time(req.start_str)
        fe == parse_time(req.end_str)
    IN IF IsOvernight(req)
       THEN << Row(MakeId(clock, "_1"), req.user_name, req.user_lab, req.eq_name,
                   req.date, fs, T2400, req.password),
               Row(MakeId(clock, "_2"), req.user_name, req.user_lab, req.eq_name,
                   req.date, T0000, fe, req.password) >>
       ELSE << Row(MakeId(clock, ""), req.user_name, req.user_lab, req.eq_name,
                   req.date, fs, fe, req.password) >>

\* new_bookings / new_booking of a validated request
NewRows(clock, req) ==
    LET fs == parse_time(req.start_str)
        fe == parse_time(req.end_str)
    IN IF IsOvernight(req)
       THEN << Row(MakeId(clock, "_1"), req.user_name, req.user_lab, req.eq_name,
                   req.date, fs, T2400, req.password),
               Row(MakeId(clock, "_2"), req.user_name, req.user_lab, req.eq_name,
                   req.date + 1, T0000, fe, req.password) >>
       ELSE << Row(MakeId(clock, ""), req.user_name, req.user_lab, req.eq_name,
                   req.date, fs, fe, req.password) >>

\* a handler up to its write: either a message (go = FALSE) or the frame to
\* save and the add_log call that follows a successful save
Rejected(text, who, errors) ==
    [go |-> FALSE, text |-> text, who |-> who, errors |-> errors,
     df |-> << >>, action |-> "", user |-> "", details |-> << >>, done |-> ""]

Planned(df, action, user, details, done, errors) ==
    [go |-> TRUE, text |-> "", who |-> "", errors |-> errors,
     df |-> df, action |-> action, user |-> user, details |-> details, done |-> done]

create_plan(table, clock, req, rd_ok) ==
    LET v == Validate(req) IN
    IF v # "ok" THEN Rejected(v, "", {})
    ELSE LET df_bookings == load_sheet(table, rd_ok)
             c  == Conflict(df_bookings, req)
             er == StoreErrors(rd_ok, TRUE, TRUE, TRUE)
             fs == parse_time(req.start_str)
             fe == parse_time(req.end_str)
         IN IF c[1] THEN Rejected("conflict", c[2], er)
            ELSE IF IsOvernight(req)
            THEN Planned(df_bookings \o NewRows(clock, req), "create_overnight",
                         req.user_name, <<req.eq_name, fs, fe>>, "created_overnight", er)
            ELSE Planned(df_bookings \o NewRows(clock, req), "create",
                         req.user_name, <<req.eq_name, req.date, fs, fe>>, "created", er)

\* variant in which a failure of add_log undoes the save and ends in an error
commit_log_aborts(table, log_table, clock, plan, wr_ok, lrd_ok, lwr_ok) ==
    LET s == save_sheet(table, plan.df, wr_ok) IN
    IF s[1] /\ lrd_ok /\ lwr_ok
    THEN [bookings |-> s[2],
          logs |-> add_log(log_table, clock, plan.action, plan.user, plan.details,
                           lrd_ok, lwr_ok),
          ui |-> [kind |-> "success", text |-> plan.done, who |-> "",
                  errors |-> plan.errors]]
    ELSE [bookings |-> table, logs |-> log_table,
          ui |-> [kind |-> "error", text |-> "save_failed", who |-> "",
                  errors |-> plan.errors \cup StoreErrors(TRUE, wr_ok, lrd_ok, lwr_ok)]]

\* variant that logs whether or not the save succeeded
commit_log_first(table, log_table, clock, plan, wr_ok, lrd_ok, lwr_ok) ==
    LET s == save_sheet(table, plan.df, wr_ok) IN
    [bookings |-> s[2],
     logs |-> add_log(log_table, clock, plan.action, plan.user, plan.details,
                      lrd_ok, lwr_ok),
     ui |-> [kind |-> IF s[1] THEN "success" ELSE "error",
             text |-> IF s[1] THEN plan.done ELSE "save_failed", who |-> "",
             errors |-> plan.errors \cup StoreErrors(TRUE, wr_ok, lrd_ok, lwr_ok)]]

\* if save_sheet('bookings', df): add_log(...); st.success(...)
\* gives [bookings, logs, ui]
commit(table, log_table, clock, plan, wr_ok, lrd_ok, lwr_ok) ==
    LET s == save_sheet(table, plan.df, wr_ok) IN
    IF s[1]
    THEN [bookings |-> s[2],
          logs |-> add_log(log_table, clock, plan.action, plan.user, plan.details,
                           lrd_ok, lwr_ok),
          ui |-> [kind |-> "success", text |-> plan.done, who |-> "",
                  errors |-> plan.errors \cup StoreErrors(TRUE, TRUE, lrd_ok, lwr_ok)]]
    ELSE [bookings |-> s[2], logs |-> log_table,
          ui |-> [kind |-> "error", text |-> "save_failed", who |-> "",
                  errors |-> plan.errors \cup StoreErrors(TRUE, FALSE, TRUE, TRUE)]]

\* the messages of a handler that stopped before its write
reject(table, log_table, plan) ==
    [bookings |-> table, logs |-> log_table,
     ui |-> [kind |-> "error", text |-> plan.text, who |-> plan.who,
             errors |-> plan.errors]]

----------------------------------------------------------------------------
(* The delete button of a listed booking *)

PwInputs == {P1234, P0000, << >>}

\* pw_input == booking['password']
PasswordMatches(pw_input, booking) == pw_input = booking.password

\* the bookings listed with a delete button: those of the selected equipment
\* that end at or after the present; every date of the model lies after the
\* clock's seconds, so each row of the equipment is listed
FutureBookings(df_bookings, eq_name) ==
    SelectSeq(df_bookings, LAMBDA r : r.equipment = eq_name)

\* variant whose filter keeps every row
WithoutNothing(df_all, id) == df_all

\* df_all[df_all['id'] != booking['id']]
WithoutId(df_all, id) == SelectSeq(df_all, LAMBDA r : r.id # id)

delete_plan(table, booking, pw_input, rd_ok) ==
    IF PasswordMatches(pw_input, booking)
    THEN Planned(WithoutId(load_sheet(table, rd_ok), booking.id), "delete",
                 booking.user_name, <<booking.equipment>>, "deleted",
                 StoreErrors(rd_ok, TRUE, TRUE, TRUE))
    ELSE Rejected("wrong_password", "", {})

----------------------------------------------------------------------------
(* The handlers, whole: [bookings, logs, ui] after the button's code ran *)

\* the outcomes of the store calls of one handler run: the read and the write
\* of the Reservations table, the read and the write of the AuditLog.  add_log
\* runs only after a successful write, and its read cannot be told from its
\* write once the write fails: the calls that leave no trace are drawn as TRUE
IoCases ==
    {io \in [rd_ok : BOOLEAN, wr_ok : BOOLEAN, lrd_ok : BOOLEAN, lwr_ok : BOOLEAN] :
        /\ ~io.wr_ok => io.lrd_ok /\ io.lwr_ok
        /\ ~io.lwr_ok => io.lrd_ok}

AllOk == [rd_ok |-> TRUE, wr_ok |-> TRUE, lrd_ok |-> TRUE, lwr_ok |-> TRUE]

finish(table, log_table, clock, plan, io) ==
    IF plan.go
    THEN commit(table, log_table, clock, plan, io.wr_ok, io.lrd_ok, io.lwr_ok)
    ELSE reject(table, log_table, plan)

create_handler(table, log_table, clock, req, io) ==
    finish(table, log_table, clock, create_plan(table, clock, req, io.rd_ok), io)

delete_handler(table, log_table, clock, booking, pw_input, io) ==
    finish(table, log_table, clock, delete_plan(table, booking, pw_input, io.rd_ok), io)

----------------------------------------------------------------------------
(* State *)

Sessions == {"s1", "s2"}

NoLoc  == [op |-> "none", plan |-> Rejected("", "", {}), stored |-> << >>]
NoCall == [fn |-> "none"]
NoRet  == [done |-> FALSE]

\* the store once the administrator has registered a lab and the equipment
\* (the booking form is not shown before), with no reservation made yet
Init ==
    /\ bookings = << >>
    /\ logs = << >>
    /\ now = 1
    /\ faults = 0
    /\ pc = [s \in Sessions |-> "idle"]
    /\ loc = [s \in Sessions |-> NoLoc]
    /\ call = NoCall
    /\ ret = NoRet
    /\ sheet_labs = <<[name |-> "Lab1"]>>
    /\ sheet_equipment = <<[name |-> "E1"], [name |-> "E2"]>>
    /\ sheet_water = << >>

\* a handler run stays within the model's bounds
WithinBounds(r) == Len(r.bookings) <= MaxRows /\ Len(r.logs) <= MaxLogs

\* the store calls that failed in one handler run
Failed(io) ==
    (IF io.rd_ok THEN 0 ELSE 1) + (IF io.wr_ok THEN 0 ELSE 1)
    + (IF io.lrd_ok THEN 0 ELSE 1) + (IF io.lwr_ok THEN 0 ELSE 1)

\* a handler that stops at the form's checks makes no store call, so no
\* outcome of one is drawn for it; failures are drawn while the run has
\* fewer than MaxFaults of them
CreateIo(req) ==
    IF Validate(req) = "ok"
    THEN {io \in IoCases : faults + Failed(io) <= MaxFaults}
    ELSE {AllOk}

DeleteIo(booking, pw_input) ==
    IF PasswordMatches(pw_input, booking)
    THEN {io \in IoCases : faults + Failed(io) <= MaxFaults}
    ELSE {AllOk}

----------------------------------------------------------------------------
(* Operations, each run to completion *)

Tick ==
    /\ now < MaxClock
    /\ now' = now + 1
    /\ UNCHANGED <<bookings, logs, faults, pc, loc, call, ret, sheets>>

\* the form offers the registered labs and equipment (selectbox)
CreateOf(reqs) ==
    \E req \in reqs : \E io \in CreateIo(req) :
        LET r == create_handler(bookings, logs, now, req, io)
        IN /\ req.user_lab \in LABS
           /\ req.eq_name \in EQUIPMENT
           /\ WithinBounds(r)
           /\ bookings' = r.bookings
           /\ logs' = r.logs
           /\ faults' = faults + Failed(io)
           /\ UNCHANGED <<now, pc, loc, call, ret, sheets>>

Create == CreateOf(Requests)

\* the list is read (line 303) in the run that handles the button; a run in
\* which that read fails lists nothing and has no button to press.  The button
\* of any listed row may be pressed (rows of one id share a widget key, and
\* the filter of line 373 removes them together whichever is pressed)
Delete ==
    \E eq_name \in EQUIPMENT, pw_input \in PwInputs :
        LET shown == FutureBookings(load_sheet(bookings, TRUE), eq_name) IN
        \E i \in 1..Len(shown) : \E io \in DeleteIo(shown[i], pw_input) :
            LET r == delete_handler(bookings, logs, now, shown[i], pw_input, io)
            IN /\ WithinBounds(r)
               /\ bookings' = r.bookings
               /\ logs' = r.logs
               /\ faults' = faults + Failed(io)
               /\ UNCHANGED <<now, pc, loc, call, ret, sheets>>

Next == Tick \/ Create \/ Delete

Spec == Init /\ [][Next]_vars

----------------------------------------------------------------------------
(* Vocabulary of the properties *)

\* minutes after midnight of "HH:MM"; "24:00" is 1440
Minutes(t) ==
    600 * DigitVal(t[1]) + 60 * DigitVal(t[2]) + 10 * DigitVal(t[4]) + DigitVal(t[5])

\* the half-open intervals [s1, e1) and [s2, e2), in minutes, share a minute
\* (the later start lies before the earlier end)
Meet(s1, e1, s2, e2) == (IF s1 > s2 THEN s1 ELSE s2) < (IF e1 < e2 THEN e1 ELSE e2)

\* row occupies part of [s, e) of that equipment on that date
Occupies(row, eq_name, date, s, e) ==
    /\ row.equipment = eq_name
    /\ row.date = date
    /\ Meet(Minutes(row.start_time), Minutes(row.end_time), s, e)

RowsOf(df) == {df[i] : i \in 1..Len(df)}

DoubleBooked(df) ==
    \E i \in 1..Len(df), j \in 1..Len(df) :
        /\ i < j
        /\ Occupies(df[i], df[j].equipment, df[j].date,
                    Minutes(df[j].start_time), Minutes(df[j].end_time))

Digits == {"0","1","2","3","4","5","6","7","8","9"}

\* a raw time the form accepts: four digits, hour 0..23, minute 0..59
WellFormedRaw(t) ==
    /\ Len(t) = 4
    /\ \A i \in 1..4 : t[i] \in Digits
    /\ 10 * DigitVal(t[1]) + DigitVal(t[2]) <= 23
    /\ 10 * DigitVal(t[3]) + DigitVal(t[4]) <= 59

\* minutes after midnight of a well-formed raw time
RawMinutes(t) ==
    600 * DigitVal(t[1]) + 60 * DigitVal(t[2]) + 10 * DigitVal(t[3]) + DigitVal(t[4])

\* the request has the shape Create asks for
WellFormed(req) ==
    /\ req.user_name # ""
    /\ Len(req.password) = 4
    /\ \A i \in 1..Len(req.password) : req.password[i] \in Digits
    /\ WellFormedRaw(req.start_str)
    /\ WellFormedRaw(req.end_str)
    /\ RawMinutes(req.start_str) # RawMinutes(req.end_str)

Crosses(req) == RawMinutes(req.end_str) < RawMinutes(req.start_str)

\* some row of df occupies part of what the request asks for
Blocked(df, req) ==
    \E row \in RowsOf(df) :
        IF Crosses(req)
        THEN \/ Occupies(row, req.eq_name, req.date, RawMinutes(req.start_str), 1440)
             \/ Occupies(row, req.eq_name, req.date + 1, 0, RawMinutes(req.end_str))
        ELSE Occupies(row, req.eq_name, req.date,
                      RawMinutes(req.start_str), RawMinutes(req.end_str))

\* what the button's code leaves behind for a request and store outcomes
AfterCreate(req, io) == create_handler(bookings, logs, now, req, io)

AfterDelete(booking, pw_input, io) ==
    delete_handler(bookings, logs, now, booking, pw_input, io)

Succeeded(r) == r.ui.kind = "success"

----------------------------------------------------------------------------
(* Properties of the operations run one at a time (Spec) *)

\* C1: from the empty table, after any Creates and Deletes run one after the
\* other, no two stored reservations of the same equipment and date share a
\* minute of their half-open intervals.
C1_NoDoubleBooking == ~DoubleBooked(bookings)

\* C1 witness: two reservations of one equipment on one date are stored, the
\* second starting at the minute the first ends.
C1_Witness ==
    \E i \in 1..Len(bookings), j \in 1..Len(bookings) :
        /\ i # j
        /\ bookings[i].equipment = bookings[j].equipment
        /\ bookings[i].date = bookings[j].date
        /\ bookings[i].end_time = bookings[j].start_time

\* C2 as claimed: an overnight Create that an existing reservation blocks, on
\* its date from start to 24:00 or on the next date from 00:00 to end, is
\* rejected as a conflict and leaves the table as it was, whatever the store
\* calls do.
C2_OvernightConflictRejects ==
    \A req \in Requests :
        WellFormed(req) /\ Crosses(req) /\ Blocked(bookings, req) =>
            \A io \in CreateIo(req) :
                /\ AfterCreate(req, io).ui.text = "conflict"
                /\ AfterCreate(req, io).bookings = bookings

\* C3: a successful overnight Create leaves as the last two rows of the table
\* row A (date D, start s, end 24:00, id base_1) and row B (date D+1, start
\* 00:00, end e, id base_2) with the request's requester, lab, equipment and
\* password, and every other row of the table was stored before.
C3_OvernightWritesPair ==
    \A req \in Requests : \A io \in CreateIo(req) :
        LET r == AfterCreate(req, io)
            n == Len(r.bookings)
        IN WellFormed(req) /\ Crosses(req) /\ Succeeded(r) =>
            /\ n >= 2
            /\ LET A == r.bookings[n - 1]
                   B == r.bookings[n]
               IN /\ A.date = req.date /\ B.date = req.date + 1
                  /\ Minutes(A.start_time) = RawMinutes(req.start_str)
                  /\ A.end_time = <<"2","4",":","0","0">>
                  /\ B.start_time = <<"0","0",":","0","0">>
                  /\ Minutes(B.end_time) = RawMinutes(req.end_str)
                  /\ A.id[1] = B.id[1] /\ A.id[2] = "_1" /\ B.id[2] = "_2"
                  /\ \A row \in {A, B} :
                        /\ row.user_name = req.user_name
                        /\ row.lab = req.user_lab
                        /\ row.equipment = req.eq_name
                        /\ row.password = req.password
            /\ \A k \in 1..(n - 2) : r.bookings[k] \in RowsOf(bookings)

\* C3 witness: a reservation is stored and an overnight Create succeeds beside it.
C3_Witness ==
    /\ Len(bookings) > 0
    /\ \E req \in Requests :
          /\ WellFormed(req) /\ Crosses(req)
          /\ Succeeded(AfterCreate(req, AllOk))
          /\ Len(AfterCreate(req, AllOk).bookings) = Len(bookings) + 2

\* C5 as claimed: every stored row has start # end; a row that is not half of
\* a split has start < end; a first half ends at 24:00 and a second half
\* starts at 00:00.
C5_RecordInvariant ==
    \A row \in RowsOf(bookings) :
        /\ row.start_time # row.end_time
        /\ row.id[2] = "" => Minutes(row.start_time) < Minutes(row.end_time)
        /\ row.id[2] = "_1" => row.end_time = <<"2","4",":","0","0">>
        /\ row.id[2] = "_2" => row.start_time = <<"0","0",":","0","0">>


\* what load_sheet('bookings') hands the handler under the store outcome io
AsRead(io) == IF io.rd_ok THEN bookings ELSE << >>

\* the number of rows a successful Create of req writes
Halves(req) == IF Crosses(req) THEN 2 ELSE 1

\* the last k rows of df are the request's, and the rows before them are prefix
EndsWithRequest(df, prefix, req) ==
    /\ Len(df) = Len(prefix) + Halves(req)
    /\ SubSeq(df, 1, Len(prefix)) = prefix
    /\ \A k \in (Len(prefix) + 1)..Len(df) :
          /\ df[k].user_name = req.user_name
          /\ df[k].lab = req.user_lab
          /\ df[k].equipment = req.eq_name
          /\ df[k].password = req.password
          /\ df[k].date \in {req.date, req.date + 1}

\* log is before with one entry more, of that user
OneEntryMore(log, before, user) ==
    /\ Len(log) = Len(before) + 1
    /\ SubSeq(log, 1, Len(before)) = before
    /\ log[Len(log)].user = user

C7_FailureChangesNothing ==
    /\ \A req \in Requests : \A io \in CreateIo(req) :
          LET r == AfterCreate(req, io) IN
          ~Succeeded(r) => r.bookings = bookings /\ r.logs = logs
    /\ \A booking \in RowsOf(bookings) : \A pw_input \in PwInputs :
          \A io \in DeleteIo(booking, pw_input) :
              LET r == AfterDelete(booking, pw_input, io) IN
              ~Succeeded(r) => r.bookings = bookings /\ r.logs = logs

\* C7 witness: a reservation and an audit entry are stored, and from there a
\* Create fails on the form, one on a conflict and one on the store write,
\* and a Delete fails on the password and one on the store write.
C7_Witness ==
    /\ Len(bookings) > 0 /\ Len(logs) > 0
    /\ \E req \in Requests : AfterCreate(req, AllOk).ui.text = "bad_time"
    /\ \E req \in Requests : AfterCreate(req, AllOk).ui.text = "conflict"
    /\ \E req \in Requests : \E io \in CreateIo(req) :
          AfterCreate(req, io).ui.text = "save_failed"
    /\ \E booking \in RowsOf(bookings) : \E pw_input \in PwInputs :
          /\ AfterDelete(booking, pw_input, AllOk).ui.text = "wrong_password"
          /\ \E io \in DeleteIo(booking, booking.password) :
                AfterDelete(booking, booking.password, io).ui.text = "save_failed"

\* C8 as claimed: a Delete with a password other than the stored one removes
\* nothing; with the stored password, when every store call succeeds, the
\* row is removed and an audit entry logged; and neither Create nor Delete
\* removes a reservation whose password was not supplied.
C8_RemovalNeedsPassword ==
    /\ \A booking \in RowsOf(bookings) : \A pw_input \in PwInputs :
          \A io \in DeleteIo(booking, pw_input) :
              LET r == AfterDelete(booking, pw_input, io) IN
              /\ pw_input # booking.password => r.bookings = bookings
              /\ pw_input = booking.password /\ io = AllOk =>
                    /\ booking \notin RowsOf(r.bookings)
                    /\ OneEntryMore(r.logs, logs, booking.user_name)
              /\ \A row \in RowsOf(bookings) \ RowsOf(r.bookings) :
                    row.password = pw_input
    /\ \A req \in Requests : \A io \in CreateIo(req) :
          RowsOf(bookings) \subseteq RowsOf(AfterCreate(req, io).bookings)

\* C9 as claimed: no two rows of the Reservations table have the same id (the
\* halves of one overnight booking differ by their suffix).
C9_UniqueIds ==
    \A i \in 1..Len(bookings), j \in 1..Len(bookings) :
        i # j => bookings[i].id # bookings[j].id


----------------------------------------------------------------------------
(* Direct calls of the pure functions (FnSpec) *)

T0900 == <<"0","9",":","0","0">>
T0930 == <<"0","9",":","3","0">>
T1000 == <<"1","0",":","0","0">>

\* rows a table handed to check_overlap is made of
FnRows ==
    {Row(<<0, "">>, u, "Lab1", e, d, t[1], t[2], P1234) :
        u \in {"kim", "lee"}, e \in EQUIPMENT, d \in Dates,
        t \in {<<T0900, T1000>>, <<T0930, T2400>>}}

\* tables of at most MaxTable rows
FnTables == UNION {[1..n -> FnRows] : n \in 0..MaxTable}

\* candidate intervals: start before end
FnIntervals ==
    {t \in {T0000, T0900, T0930, T1000, T2400} \X {T0000, T0900, T0930, T1000, T2400} :
        Minutes(t[1]) < Minutes(t[2])}

\* the calls of check_overlap that are made
CheckOverlapCalls ==
    {[fn |-> "check_overlap", df |-> df, date_str |-> d, eq_name |-> e,
      start_time |-> t[1], end_time |-> t[2]] :
        df \in FnTables, d \in Dates, e \in EQUIPMENT, t \in FnIntervals}

\* max_chars of the form's text inputs
max_chars == 4

\* the strings handed to parse_time: everything the form's input can hold
\* over these characters, and two longer strings
TimeChars == {"0", "2", "3", "4", "5", "6", "9", "a", "sup2", "ar3"}

TimeStrings ==
    UNION {[1..n -> TimeChars] : n \in 0..max_chars}
    \cup {<<"0","9",":","0","0">>, <<"0","9","0","0","0">>}

ParseTimeCalls == {[fn |-> "parse_time", time_str |-> t] : t \in TimeStrings}

\* "HH:MM" of hour h and minute m
Canonical(h, m) ==
    <<DigitChar[(h \div 10) + 1], DigitChar[(h % 10) + 1], ":",
      DigitChar[(m \div 10) + 1], DigitChar[(m % 10) + 1]>>

\* the cell values handed to calculate_hours: times as Create stores them,
\* and cells as the reservations editor or the worksheet can hold them
CellStrings ==
    {Canonical(h, m) : h \in {0, 9, 23}, m \in {0, 30, 59}}
    \cup {T2400, << >>, <<"0","9","0","0">>, <<"9",":","5">>, <<"2","5",":","0","0">>,
          <<"0","9",":","6","0">>, <<"0","9",":","0","a">>, <<"0","9",":","sup2","0">>,
          <<"0","9",":","0","0",":","0","0">>, <<"a">>, <<"0","9",":">>}
    \cup UNION {[1..n -> {"2", "5", ":"}] : n \in 1..max_chars}

CalculateHoursCalls ==
    {[fn |-> "calculate_hours", start_str |-> a, end_str |-> b] :
        a \in CellStrings, b \in CellStrings}

\* the times compared by check_overlap and by the overnight test
ComparedTimes ==
    {Canonical(h, m) : h \in 0..23, m \in {0, 1, 9, 10, 30, 59}} \cup {T2400}

CompareCalls == {[fn |-> "compare", a |-> a, b |-> b] : a \in ComparedTimes, b \in ComparedTimes}

\* a call is drawn, then made
FnInit ==
    /\ sheet_labs = <<[name |-> "Lab1"]>>
    /\ sheet_equipment = <<[name |-> "E1"], [name |-> "E2"]>>
    /\ sheet_water = << >>
    /\ bookings = << >>
    /\ logs = << >>
    /\ now = 1
    /\ faults = 0
    /\ pc = [s \in Sessions |-> "idle"]
    /\ loc = [s \in Sessions |-> NoLoc]
    /\ call \in CheckOverlapCalls \cup ParseTimeCalls \cup CalculateHoursCalls \cup CompareCalls
    /\ ret = NoRet

CallCheckOverlap ==
    /\ call.fn = "check_overlap"
    /\ ~ret.done
    /\ ret' = [done |-> TRUE,
               value |-> check_overlap(call.df, call.date_str, call.eq_name,
                                       call.start_time, call.end_time)]
    /\ UNCHANGED <<bookings, logs, now, faults, pc, loc, call, sheets>>

CallParseTime ==
    /\ call.fn = "parse_time"
    /\ ~ret.done
    /\ ret' = [done |-> TRUE, value |-> parse_time(call.time_str)]
    /\ UNCHANGED <<bookings, logs, now, faults, pc, loc, call, sheets>>

CallCalculateHours ==
    /\ call.fn = "calculate_hours"
    /\ ~ret.done
    /\ ret' = [done |-> TRUE, value |-> calculate_hours(call.start_str, call.end_str)]
    /\ UNCHANGED <<bookings, logs, now, faults, pc, loc, call, sheets>>

\* row['start_time'] < end_time (line 120), fe < fs (line 232)
CallCompare ==
    /\ call.fn = "compare"
    /\ ~ret.done
    /\ ret' = [done |-> TRUE, value |-> StrLt(call.a, call.b)]
    /\ UNCHANGED <<bookings, logs, now, faults, pc, loc, call, sheets>>

FnNext == CallCheckOverlap \/ CallParseTime \/ CallCalculateHours \/ CallCompare

FnSpec == FnInit /\ [][FnNext]_vars

\* C4: check_overlap reports a conflict exactly when some row of the table
\* has the candidate's date and equipment and an interval with
\* row.start < end and start < row.end; so a row that only touches the
\* candidate, or is of another date or equipment, causes none.
C4_ConflictIffOverlap ==
    call.fn = "check_overlap" /\ ret.done =>
        (ret.value[1] <=>
            \E row \in RowsOf(call.df) :
                /\ row.date = call.date_str
                /\ row.equipment = call.eq_name
                /\ Minutes(row.start_time) < Minutes(call.end_time)
                /\ Minutes(call.start_time) < Minutes(row.end_time))

\* C4 witness: no conflict is reported for a table with a row of the
\* candidate's date and equipment that ends where the candidate starts and a
\* row of another equipment that the candidate's time runs into.
C4_Witness ==
    /\ call.fn = "check_overlap"
    /\ ret.done
    /\ ret.value[1] = FALSE
    /\ \E row \in RowsOf(call.df) :
          /\ row.date = call.date_str /\ row.equipment = call.eq_name
          /\ row.end_time = call.start_time
    /\ \E row \in RowsOf(call.df) :
          /\ row.date = call.date_str /\ row.equipment # call.eq_name
          /\ Minutes(row.start_time) < Minutes(call.end_time)
          /\ Minutes(call.start_time) < Minutes(row.end_time)


----------------------------------------------------------------------------
(* Two browser sessions against the one store (ConcSpec).  A handler is     *)
(* split where it waits for the store: it reads the Reservations table and  *)
(* decides, and later writes.  Each store call is all-or-nothing.  Beside   *)
(* the handler's locals, loc[s].stored records the table as it was stored  *)
(* when the session read it.                                               *)

\* what session s may ask for: its own user's bookings of one equipment and date
ConcRequests(s) ==
    IF s = "s1"
    THEN [user_name : {"kim"}, user_lab : LABS, eq_name : {"E1"}, date : {1},
          start_str : {R0900, R2300}, end_str : RawTimes, password : {P1234}]
    ELSE [user_name : {"lee"}, user_lab : LABS, eq_name : {"E1"}, date : {1},
          start_str : {R0900}, end_str : {R2300}, password : {P0000}]

\* the outcomes of a read, and of the calls from the write on, that the
\* run's failures still allow
ReadIo == {io \in IoCases : io.wr_ok /\ faults + Failed(io) <= MaxFaults}

WriteIo == {io \in IoCases : io.rd_ok /\ faults + Failed(io) <= MaxFaults}

\* lines 216-267 / 275-291: the form's checks, the read, the conflict check
BeginCreate(s) ==
    /\ pc[s] = "idle"
    /\ \E req \in ConcRequests(s) : \E io \in ReadIo :
          LET plan == create_plan(bookings, now, req, io.rd_ok) IN
          /\ plan.go
          /\ pc' = [pc EXCEPT ![s] = "write"]
          /\ loc' = [loc EXCEPT ![s] = [op |-> "create", plan |-> plan,
                                        stored |-> bookings]]
          /\ faults' = faults + Failed(io)
          /\ UNCHANGED <<bookings, logs, now, call, ret, sheets>>

\* lines 370-373: the password test, the read, the filter
BeginDelete(s) ==
    /\ pc[s] = "idle"
    /\ \E i \in 1..Len(bookings) : \E pw_input \in PwInputs : \E io \in ReadIo :
          LET plan == delete_plan(bookings, bookings[i], pw_input, io.rd_ok) IN
          /\ plan.go
          /\ pc' = [pc EXCEPT ![s] = "write"]
          /\ loc' = [loc EXCEPT ![s] = [op |-> "delete", plan |-> plan,
                                        stored |-> bookings]]
          /\ faults' = faults + Failed(io)
          /\ UNCHANGED <<bookings, logs, now, call, ret, sheets>>

\* lines 269-272 / 293-296 / 374-377: the write and, after it, add_log
Write(s) ==
    /\ pc[s] = "write"
    /\ \E io \in WriteIo :
          LET r == commit(bookings, logs, now, loc[s].plan,
                          io.wr_ok, io.lrd_ok, io.lwr_ok) IN
          /\ WithinBounds(r)
          /\ bookings' = r.bookings
          /\ logs' = r.logs
          /\ faults' = faults + Failed(io)
          /\ pc' = [pc EXCEPT ![s] = "idle"]
          /\ loc' = [loc EXCEPT ![s] = NoLoc]
          /\ UNCHANGED <<now, call, ret, sheets>>

ConcNext ==
    \/ Tick
    \/ \E s \in Sessions : BeginCreate(s)
    \/ \E s \in Sessions : BeginDelete(s)
    \/ \E s \in Sessions : Write(s)

ConcSpec == Init /\ [][ConcNext]_vars

\* the rows session s is about to add: the frame it saves ends with them
NewOf(s) ==
    LET df == loc[s].plan.df
        k  == IF loc[s].plan.action = "create_overnight" THEN 2 ELSE 1
    IN {df[i] : i \in (Len(df) - k + 1)..Len(df)}

\* the rows stored since session s read the table
StoredSince(s) == RowsOf(bookings) \ RowsOf(loc[s].stored)

\* session s is between its read and its write of a Create, and a row stored
\* since its read takes part of what it is about to book
Overtaken(s) ==
    /\ pc[s] = "write"
    /\ loc[s].op = "create"
    /\ \E old \in StoredSince(s), new \in NewOf(s) :
          Occupies(old, new.equipment, new.date,
                   Minutes(new.start_time), Minutes(new.end_time))

\* the Reservations table after the successful write of session s
AfterWrite(s) == commit(bookings, logs, now, loc[s].plan, TRUE, TRUE, TRUE).bookings

\* C10 as claimed: when another session has written an overlapping
\* reservation between a Create's read and its write, the table after that
\* write holds a double-booking.
C10_RaceDoubleBooks ==
    \A s \in Sessions : Overtaken(s) => DoubleBooked(AfterWrite(s))

\* C10 amended: the table never holds two overlapping reservations of one
\* equipment and date; the write of a Create that was overtaken replaces the
\* table by what the session had read and its own row(s), so that every row
\* stored since its read (and not equal to a row of its own) is lost.
C10_RaceLosesTheOtherBooking ==
    /\ ~DoubleBooked(bookings)
    /\ \A s \in Sessions : Overtaken(s) =>
          /\ ~DoubleBooked(AfterWrite(s))
          /\ (StoredSince(s) \ NewOf(s)) \cap RowsOf(AfterWrite(s)) = {}
          /\ NewOf(s) \subseteq RowsOf(AfterWrite(s))

\* C10 witness: a session is between the read and the write of its Create
\* while the other session's overlapping reservation has been stored.
C10_Witness == \E s \in Sessions : Overtaken(s)

----------------------------------------------------------------------------
(* The water ledger and the administrator's editors (AdminSpec)            *)

MaxNames == 2      \* rows of a registry table
MaxWater == 2      \* rows of the water ledger

\* datetime.now().strftime('%Y-%m-%d'): the clock's seconds are all of the
\* day before the first date that can be booked
DayOf(clock) == 0

\* str(w_amount) of the amounts entered
Amounts == {<<"0",".","5">>}

\* the water form up to its write
water_plan(table, clock, w_name, w_lab, w_amount, rd_ok) ==
    IF w_name = "" THEN Rejected("name_required", "", {})
    ELSE Planned(load_sheet(table, rd_ok)
                    \o <<[date |-> DayOf(clock), user_name |-> w_name,
                          lab |-> w_lab, amount |-> w_amount]>>,
                 "water", w_name, <<w_amount>>, "recorded",
                 StoreErrors(rd_ok, TRUE, TRUE, TRUE))

\* the water form, whole; the first field of the result is the 'water' table
water_handler(table, log_table, clock, w_name, w_lab, w_amount, io) ==
    finish(table, log_table, clock,
           water_plan(table, clock, w_name, w_lab, w_amount, io.rd_ok), io)

ADMIN_PASSWORD == "admin1234"

AdminPwInputs == {"admin1234", "guess", ""}

\* what st.data_editor returns: the frame it was handed with the
\* administrator's change made to it; a change to a row that the frame does
\* not have is lost
NoEdit == [kind |-> "none"]

SetCell(row, col, value) == [kind |-> "set", row |-> row, col |-> col, value |-> value]

AddRow(value) == [kind |-> "add", value |-> value]

DeleteRow(row) == [kind |-> "delete", row |-> row]

data_editor(df, edit) ==
    CASE edit.kind = "none" -> df
      [] edit.kind = "set" ->
            IF edit.row \in 1..Len(df)
            THEN [df EXCEPT ![edit.row] = [@ EXCEPT ![edit.col] = edit.value]]
            ELSE df
      [] edit.kind = "add" -> Append(df, edit.value)
      [] edit.kind = "delete" ->
            IF edit.row \in 1..Len(df)
            THEN SubSeq(df, 1, edit.row - 1) \o SubSeq(df, edit.row + 1, Len(df))
            ELSE df

\* the save button of a registry editor: the edited frame overwrites the
\* table; nothing else is read or written
registry_save(table, log_table, edit, io) ==
    LET s == save_sheet(table, data_editor(load_sheet(table, io.rd_ok), edit), io.wr_ok)
    IN [bookings |-> s[2], logs |-> log_table,
        ui |-> [kind |-> IF s[1] THEN "success" ELSE "error",
                text |-> IF s[1] THEN "saved" ELSE "save_failed", who |-> "",
                errors |-> StoreErrors(io.rd_ok, io.wr_ok, TRUE, TRUE)]]

\* the save button of the reservations editor and of the water editor: the
\* edited frame overwrites the table, then add_log("ADMIN", ...)
admin_plan(table, edit, what, rd_ok) ==
    Planned(data_editor(load_sheet(table, rd_ok), edit), "ADMIN", "admin",
            <<what>>, "saved", StoreErrors(rd_ok, TRUE, TRUE, TRUE))

admin_save(table, log_table, clock, edit, what, io) ==
    finish(table, log_table, clock, admin_plan(table, edit, what, io.rd_ok), io)

\* the changes the administrator makes
LabNames == {"Lab1", "Lab2"}

LabEdits ==
    {NoEdit, AddRow([name |-> "Lab2"]), DeleteRow(MaxNames)}
    \cup {SetCell(1, "name", n) : n \in LabNames}

EquipmentEdits == {NoEdit, SetCell(2, "name", "E1"), SetCell(2, "name", "E2")}

BookingEdits ==
    {NoEdit, SetCell(1, "end_time", T2400), SetCell(1, "password", P0000),
     SetCell(1, "id", MakeId(0, "")), DeleteRow(1)}

WaterEdits == {NoEdit, SetCell(1, "lab", "Lab2"), DeleteRow(1)}

\* what the booking form is asked for beside the administrator's work
AdminRequests ==
    [user_name : {"kim"}, user_lab : LABS, eq_name : {"E1"}, date : {1},
     start_str : {R0900}, end_str : {R2300}, password : {P1234}]
    \cup [user_name : {"lee"}, user_lab : LABS, eq_name : {"E1"}, date : {1},
          start_str : {R2300}, end_str : {R0900}, password : {P0000}]
    \cup {[BaseRequest EXCEPT !.end_str = << >>]}

\* the outcomes of the store calls that the run's failures still allow
AllowedIo == {io \in IoCases : faults + Failed(io) <= MaxFaults}

\* a registry save makes no call of add_log
RegistryIo == {io \in AllowedIo : io.lrd_ok /\ io.lwr_ok}

RecordWater ==
    \E w_name \in {"", "kim"}, w_lab \in LABS, w_amount \in Amounts :
        \E io \in (IF w_name = "" THEN {AllOk} ELSE AllowedIo) :
            LET r == water_handler(sheet_water, logs, now, w_name, w_lab, w_amount, io)
            IN /\ Len(r.bookings) <= MaxWater /\ Len(r.logs) <= MaxLogs
               /\ sheet_water' = r.bookings
               /\ logs' = r.logs
               /\ faults' = faults + Failed(io)
               /\ UNCHANGED <<bookings, now, pc, loc, call, ret,
                              sheet_labs, sheet_equipment>>

SaveLabs ==
    \E admin_pw \in AdminPwInputs, edit \in LabEdits, io \in RegistryIo :
        LET r == registry_save(sheet_labs, logs, edit, io)
        IN /\ admin_pw = ADMIN_PASSWORD
           /\ Len(r.bookings) <= MaxNames
           /\ sheet_labs' = r.bookings
           /\ faults' = faults + Failed(io)
           /\ UNCHANGED <<bookings, logs, now, pc, loc, call, ret,
                          sheet_equipment, sheet_water>>

SaveEquipment ==
    \E admin_pw \in AdminPwInputs, edit \in EquipmentEdits, io \in RegistryIo :
        LET r == registry_save(sheet_equipment, logs, edit, io)
        IN /\ admin_pw = ADMIN_PASSWORD
           /\ Len(r.bookings) <= MaxNames
           /\ sheet_equipment' = r.bookings
           /\ faults' = faults + Failed(io)
           /\ UNCHANGED <<bookings, logs, now, pc, loc, call, ret,
                          sheet_labs, sheet_water>>

SaveBookings ==
    \E admin_pw \in AdminPwInputs, edit \in BookingEdits, io \in AllowedIo :
        LET r == admin_save(bookings, logs, now, edit, "bookings", io)
        IN /\ admin_pw = ADMIN_PASSWORD
           /\ WithinBounds(r)
           /\ bookings' = r.bookings
           /\ logs' = r.logs
           /\ faults' = faults + Failed(io)
           /\ UNCHANGED <<now, pc, loc, call, ret, sheets>>

SaveWater ==
    \E admin_pw \in AdminPwInputs, edit \in WaterEdits, io \in AllowedIo :
        LET r == admin_save(sheet_water, logs, now, edit, "water", io)
        IN /\ admin_pw = ADMIN_PASSWORD
           /\ Len(r.bookings) <= MaxWater /\ Len(r.logs) <= MaxLogs
           /\ sheet_water' = r.bookings
           /\ logs' = r.logs
           /\ faults' = faults + Failed(io)
           /\ UNCHANGED <<bookings, now, pc, loc, call, ret,
                          sheet_labs, sheet_equipment>>

AdminNext ==
    \/ Tick
    \/ CreateOf(AdminRequests)
    \/ Delete
    \/ RecordWater
    \/ SaveLabs
    \/ SaveEquipment
    \/ SaveBookings
    \/ SaveWater

AdminSpec == Init /\ [][AdminNext]_vars

----------------------------------------------------------------------------
(* Properties of the audit log (AdminSpec) *)

\* the same outcomes of the store calls with add_log's read and write succeeding
LogOk(io) == [io EXCEPT !.lrd_ok = TRUE, !.lwr_ok = TRUE]

\* one run of a handler from the present state: the operation, the table it
\* is about as it was, the outcomes of its store calls, what it leaves, and
\* what it leaves when add_log's own store calls succeed
Run(op, before, io, r, clean) ==
    [op |-> op, before |-> before, io |-> io, r |-> r, clean |-> clean]

CreateRuns ==
    UNION {{Run("create", bookings, io, AfterCreate(req, io), AfterCreate(req, LogOk(io))) : io \in CreateIo(req)} :
              req \in AdminRequests}

DeleteRuns ==
    UNION {{Run("delete", bookings, io,
                  AfterDelete(bookings[i], bookings[i].password, io),
                  AfterDelete(bookings[i], bookings[i].password, LogOk(io))) :
              io \in AllowedIo} : i \in 1..Len(bookings)}

WaterRuns ==
    {Run("water", sheet_water, io,
         water_handler(sheet_water, logs, now, "kim", w_lab, w_amount, io),
         water_handler(sheet_water, logs, now, "kim", w_lab, w_amount, LogOk(io))) :
        w_lab \in LABS, w_amount \in Amounts, io \in AllowedIo}

SaveBookingsRuns ==
    {Run("admin_bookings", bookings, io,
         admin_save(bookings, logs, now, edit, "bookings", io),
         admin_save(bookings, logs, now, edit, "bookings", LogOk(io))) :
        edit \in BookingEdits, io \in AllowedIo}

SaveWaterRuns ==
    {Run("admin_water", sheet_water, io,
         admin_save(sheet_water, logs, now, edit, "water", io),
         admin_save(sheet_water, logs, now, edit, "water", LogOk(io))) :
        edit \in WaterEdits, io \in AllowedIo}

SaveLabsRuns ==
    {Run("admin_labs", sheet_labs, io, registry_save(sheet_labs, logs, edit, io),
         registry_save(sheet_labs, logs, edit, io)) :
        edit \in LabEdits, io \in RegistryIo}

SaveEquipmentRuns ==
    {Run("admin_equipment", sheet_equipment, io,
         registry_save(sheet_equipment, logs, edit, io),
         registry_save(sheet_equipment, logs, edit, io)) :
        edit \in EquipmentEdits, io \in RegistryIo}

\* the runs of the handlers that call add_log, and of all that write a table
LoggingRuns ==
    CreateRuns \cup DeleteRuns \cup WaterRuns \cup SaveBookingsRuns \cup SaveWaterRuns

Runs == LoggingRuns \cup SaveLabsRuns \cup SaveEquipmentRuns

\* a is the beginning of b
IsPrefix(a, b) == Len(a) <= Len(b) /\ SubSeq(b, 1, Len(a)) = a

\* C11 as claimed: the AuditLog is append-only; whatever operation runs, the
\* entries that were in the log are still there, unchanged and in order, at
\* the head of the log, and at most one entry has been added behind them.
C11_AppendOnly ==
    \A run \in Runs :
        /\ IsPrefix(logs, run.r.logs)
        /\ Len(run.r.logs) <= Len(logs) + 1

\* C12 as claimed, for the runs in which every store call succeeds: each
\* handler that ends in success after writing a table (reservation create
\* and delete, water record, the administrator's saves of the reservations,
\* the water ledger, the lab registry and the equipment registry) leaves the
\* AuditLog with one entry more.
C12_EveryMutationLogged ==
    \A run \in Runs :
        run.io = AllOk /\ Succeeded(run.r) =>
            /\ Len(run.r.logs) = Len(logs) + 1
            /\ IsPrefix(logs, run.r.logs)

\* C13: a failure of add_log's read or write of the AuditLog changes nothing
\* but the log: the handler leaves the table it wrote and ends in success or
\* in error exactly as it does when add_log's own store calls succeed; so a
\* run whose primary write succeeded and whose add_log failed ends in success
\* with the written table in the store.
C13_LogFailureSwallowed ==
    \A run \in LoggingRuns :
        /\ run.r.bookings = run.clean.bookings
        /\ run.r.ui.kind = run.clean.ui.kind
        /\ run.r.ui.text = run.clean.ui.text
        /\ Succeeded(run.clean) /\ run.io.rd_ok =>
              /\ Succeeded(run.r)
              /\ run.op \in {"create", "water"} =>
                    /\ Len(run.r.bookings) > Len(run.before)
                    /\ IsPrefix(run.before, run.r.bookings)

\* C13 witness: a reservation is in the store and no audit entry is: the
\* Create that wrote it ran add_log, whose write of the AuditLog failed.
C13_Witness == Len(bookings) > 0 /\ Len(logs) = 0 /\ faults > 0

----------------------------------------------------------------------------
(* Properties of the pure functions (FnSpec) *)

\* the value of a character that counts as a digit: a decimal digit, or the
\* superscript read as the digit it shows
ShownDigit(c) == IF c = "sup2" THEN 2 ELSE DigitVal(c)

\* C14 as claimed: parse_time returns, and what it returns is "HH:MM" when
\* the string has exactly 4 characters, all digits, with hour 0..23 and
\* minute 0..59, and a parse failure for every other string.
C14_ParseTime ==
    call.fn = "parse_time" /\ ret.done =>
        LET t == call.time_str
            fits == /\ Len(t) = 4
                    /\ \A i \in 1..4 : IsDigitChar(t[i])
                    /\ 10 * ShownDigit(t[1]) + ShownDigit(t[2]) <= 23
                    /\ 10 * ShownDigit(t[3]) + ShownDigit(t[4]) <= 59
        IN IF fits
           THEN ret.value = Canonical(10 * ShownDigit(t[1]) + ShownDigit(t[2]),
                                      10 * ShownDigit(t[3]) + ShownDigit(t[4]))
           ELSE ret.value = None

\* t is a well-formed "HH:MM": hour 00..23 and minute 00..59
IsCanonical(t) == \E h \in 0..23, m \in 0..59 : t = Canonical(h, m)

\* C18 as claimed: calculate_hours returns (endMinutes - startMinutes)/60
\* when start is a well-formed "HH:MM" and end is one or is "24:00", which
\* counts as 1440 minutes, and returns 0.0 when start or end is anything else.
C18_CalculateHours ==
    call.fn = "calculate_hours" /\ ret.done =>
        IF IsCanonical(call.start_str)
           /\ (IsCanonical(call.end_str) \/ call.end_str = T2400)
        THEN ret.value.num * 60 =
                (Minutes(call.end_str) - Minutes(call.start_str)) * ret.value.den
        ELSE ret.value.num = 0

\* the rows of the table, by position, that conflict with the candidate of
\* the call: same date, same equipment, intervals that share a minute
ConflictingRows ==
    {i \in 1..Len(call.df) :
        /\ call.df[i].date = call.date_str
        /\ call.df[i].equipment = call.eq_name
        /\ Minutes(call.df[i].start_time) < Minutes(call.end_time)
        /\ Minutes(call.start_time) < Minutes(call.df[i].end_time)}

\* C19: check_overlap returns the user_name of the conflicting row that comes
\* first in the table, and the empty name when no row conflicts.
C19_FirstBlockerNamed ==
    call.fn = "check_overlap" /\ ret.done =>
        IF ConflictingRows = {}
        THEN ret.value[2] = ""
        ELSE \E i \in ConflictingRows :
                /\ \A j \in ConflictingRows : i <= j
                /\ ret.value[2] = call.df[i].user_name

\* C19 witness: the two rows of the table, of different requesters, both
\* conflict with the candidate, and the name returned is that of the first.
C19_Witness ==
    /\ call.fn = "check_overlap"
    /\ ret.done
    /\ ConflictingRows = {1, 2}
    /\ call.df[1].user_name # call.df[2].user_name
    /\ ret.value = <<TRUE, call.df[1].user_name>>

\* C20: for "00:00".."23:59" and "24:00", a < b as strings exactly when a is
\* fewer minutes after midnight than b, "24:00" being 1440 minutes.
C20_StringOrderIsTimeOrder ==
    call.fn = "compare" /\ ret.done =>
        (ret.value <=> Minutes(call.a) < Minutes(call.b))

\* C20 witness: "23:59" compared with the sentinel "24:00" is less.
C20_Witness ==
    /\ call.fn = "compare"
    /\ ret.done
    /\ call.a = Canonical(23, 59)
    /\ call.b = T2400
    /\ ret.value = TRUE

----------------------------------------------------------------------------
(* Properties of the administrator's editors (AdminSpec) *)

\* C15 as claimed, for the save of the reservations editor, the one place
\* where a stored reservation is edited: with every store call succeeding, an
\* edit is saved only if the edited reservation overlaps no other
\* reservation of its equipment and date, and a saved edit of a cell leaves
\* the id and the password of every reservation as they were.
C15_EditChecked ==
    \A edit \in BookingEdits :
        LET r == admin_save(bookings, logs, now, edit, "bookings", AllOk) IN
        edit.kind = "set" /\ ~DoubleBooked(bookings) /\ Succeeded(r) =>
            /\ ~DoubleBooked(r.bookings)
            /\ Len(r.bookings) = Len(bookings)
            /\ \A i \in 1..Len(bookings) :
                  /\ r.bookings[i].id = bookings[i].id
                  /\ r.bookings[i].password = bookings[i].password

\* the edit renames a registered lab to a name that another row of the
\* registry has already
RenamesToExisting(edit) ==
    /\ edit.kind = "set"
    /\ edit.row \in 1..Len(sheet_labs)
    /\ sheet_labs[edit.row].name # edit.value
    /\ \E i \in 1..Len(sheet_labs) : i # edit.row /\ sheet_labs[i].name = edit.value

\* C16 as claimed: renaming a lab to a name that is already in the lab
\* registry fails and leaves the registry as it was.
C16_DuplicateRenameRejected ==
    \A edit \in LabEdits : \A io \in RegistryIo :
        LET r == registry_save(sheet_labs, logs, edit, io) IN
        RenamesToExisting(edit) => ~Succeeded(r) /\ r.bookings = sheet_labs

\* C17 as claimed: a step that renames a lab of the registry from old to a
\* new name leaves no reservation and no water-usage row that references old.
C17_RenameCascades ==
    [][\A i \in 1..Len(sheet_labs) :
          /\ Len(sheet_labs') = Len(sheet_labs)
          /\ sheet_labs'[i].name # sheet_labs[i].name
          /\ sheet_labs'[i].name \notin NamesOf(sheet_labs)
          => \A row \in RowsOf(bookings') \cup RowsOf(sheet_water') :
                row.lab # sheet_labs[i].name]_vars

----------------------------------------------------------------------------
(* What Create and Delete leave of the Reservations table *)

\* session s is between a read of the Reservations table that succeeded and
\* its write
ReadAndWaiting(s) == pc[s] = "write" /\ loc[s].plan.errors = {}

\* the rows stored now that the successful write of session s removes
RemovedByWrite(s) == RowsOf(bookings) \ RowsOf(AfterWrite(s))

\* C21 as claimed, for a session that read the table and is about to write:
\* the write of a Create removes no stored reservation, and the write of a
\* Delete removes only rows of one id, an id the session saw when it read.
C21_StaysUntilDeleted ==
    \A s \in Sessions : ReadAndWaiting(s) =>
        IF loc[s].op = "create"
        THEN RemovedByWrite(s) = {}
        ELSE \E old \in RowsOf(loc[s].stored) :
                \A row \in RemovedByWrite(s) : row.id = old.id

\* C22 as claimed: a Create that succeeds, whatever the outcome of its read
\* of the Reservations table, leaves the table as the rows that were stored,
\* in their order and unchanged, followed by the new row(s).
C22_CreateOnlyAdds ==
    \A req \in Requests : \A io \in CreateIo(req) :
        LET r == AfterCreate(req, io) IN
        Succeeded(r) =>
            /\ IsPrefix(bookings, r.bookings)
            /\ EndsWithRequest(r.bookings, bookings, req)

\* the rows of df whose id is not id, in their order
Others(df, id) == SelectSeq(df, LAMBDA row : row.id # id)

\* C23 as claimed: a Delete that succeeds leaves the Reservations table as
\* its rows of another id, in their order and unchanged (so one half of an
\* overnight pair stays when the other is deleted), and the AuditLog as its
\* entries with at most the one new entry after them.  (The handler makes
\* no store call on the registries or the water ledger.)
C23_DeleteOnlyRemovesId ==
    \A booking \in RowsOf(bookings) : \A pw_input \in PwInputs :
        \A io \in DeleteIo(booking, pw_input) :
            LET r == AfterDelete(booking, pw_input, io) IN
            Succeeded(r) =>
                /\ r.bookings = Others(bookings, booking.id)
                /\ IsPrefix(logs, r.logs)
                /\ Len(r.logs) <= Len(logs) + 1

\* the stored row is the reservation that a single-day Create of req writes
\* (its id has no suffix of an overnight half)
WrittenFor(row, req) ==
    /\ WellFormed(req) /\ ~Crosses(req)
    /\ row.id[2] = ""
    /\ row.user_name = req.user_name
    /\ row.lab = req.user_lab
    /\ row.equipment = req.eq_name
    /\ row.date = req.date
    /\ row.password = req.password
    /\ Minutes(row.start_time) = RawMinutes(req.start_str)
    /\ Minutes(row.end_time) = RawMinutes(req.end_str)

\* what a Create of req leaves when it follows the Delete of booking that
\* left d; the store calls of the Create come out as io
Rebooked(d, req, io) == create_handler(d.bookings, d.logs, now, req, io)

\* C24 as claimed: when the stored single-day reservation of a request is
\* deleted with success, and no stored reservation of another id overlaps
\* the request, a following Create of the same request succeeds.
C24_FreedSlotBookable ==
    \A req \in Requests : \A booking \in RowsOf(bookings) :
        WrittenFor(booking, req) /\ ~Blocked(Others(bookings, booking.id), req) =>
            \A io1 \in DeleteIo(booking, booking.password) : \A io2 \in IoCases :
                LET d == AfterDelete(booking, booking.password, io1) IN
                Succeeded(d) => Succeeded(Rebooked(d, req, io2))

\* C24 amended: ... a following Create of the same request succeeds when
\* its write of the Reservations table succeeds.
C24_FreedSlotBookableWhenWritten ==
    \A req \in Requests : \A booking \in RowsOf(bookings) :
        WrittenFor(booking, req) /\ ~Blocked(Others(bookings, booking.id), req) =>
            \A io1 \in DeleteIo(booking, booking.password) : \A io2 \in IoCases :
                LET d == AfterDelete(booking, booking.password, io1) IN
                Succeeded(d) => (Succeeded(Rebooked(d, req, io2)) <=> io2.wr_ok)

\* C24 witness: a single-day reservation is stored beside a reservation of
\* another id; its Delete succeeds, and the Create of the same request that
\* follows succeeds and stores the reservation again.
C24_Witness ==
    \E req \in Requests : \E booking \in RowsOf(bookings) :
        LET d == AfterDelete(booking, booking.password, AllOk)
            c == Rebooked(d, req, AllOk)
        IN /\ WrittenFor(booking, req)
           /\ Len(Others(bookings, booking.id)) > 0
           /\ Succeeded(d)
           /\ booking \notin RowsOf(d.bookings)
           /\ Succeeded(c)
           /\ \E row \in RowsOf(c.bookings) : WrittenFor(row, req)


=============================================================================
